---- MODULE Spec2Model ----
(***************************************************************************)
(* VibeReel: the HeroBanner spotlight carousel (activeIndex, the           *)
(* auto-advance interval, goTo and its UI callers) and the useTMDB hook    *)
(* (movies / loading / error, fetchTrending and its cancelled flag).       *)
(***************************************************************************)
EXTENDS Integers, FiniteSets, Sequences, TLC

VARIABLES
    \* ---- HeroBanner ----
    mounted,      \* the component instance is mounted
    crashed,      \* a render threw (movies[activeIndex] is undefined)
    moviesLen,    \* movies.length of the movies prop
    activeIndex,  \* useState(0)
    timerRef,     \* timerRef.current: 0 is null, otherwise an interval handle
    timers,       \* pending intervals: handle -> [mod, remaining, owner]
    nextHandle,   \* the handle the next setInterval call returns
    hasCleanup,   \* the last run of the auto-advance effect returned a cleanup
    \* ---- useTMDB ----
    hookMounted,  \* the component using the hook is mounted
    movies,       \* useState([])
    loading,      \* useState(true)
    error,        \* useState(null)
    attempts,     \* fetchTrending invocations: id -> [pc, cancelled, ...]
    order,        \* ids of the invocations in the order they finished
    engine        \* the JavaScript engine that words the built-in errors

heroVars == <<mounted, crashed, moviesLen, activeIndex, timerRef, timers,
              nextHandle, hasCleanup>>
loaderVars == <<hookMounted, movies, loading, error, attempts, order, engine>>
vars == <<heroVars, loaderVars>>

\* ------------------------------------------------------------------------
\* Bounds
\* ------------------------------------------------------------------------
MaxMovies == 6
MaxHandles == 4
ClockStep == 2000
MaxAttempts == 2
MaxResults == 2

\* ------------------------------------------------------------------------
\* HeroBanner
\* ------------------------------------------------------------------------
INTERVAL_MS == 6000
MAX_SLIDES == 5

\* NaN, the value of x % 0
NaN == -1000

Min(a, b) == IF a <= b THEN a ELSE b

TotalUncapped(len) == len

\* const total = Math.min(movies.length, 5)
Total(len) == Min(len, MAX_SLIDES)

total == Total(moviesLen)

\* JavaScript's a % m: NaN for m = 0, the sign of the dividend otherwise
JSMod(a, m) ==
    IF a = NaN \/ m = 0 THEN NaN
    ELSE IF a >= 0 THEN a % m ELSE 0 - ((0 - a) % m)

\* prev => (prev + 1) % total
Advance(prev, m) == IF prev = NaN THEN NaN ELSE JSMod(prev + 1, m)

\* clearInterval(h): no effect on null or on a handle that is not pending
ClearInterval(ts, h) == [k \in (DOMAIN ts) \ {h} |-> ts[k]]

\* setInterval(() => setActiveIndex(prev => (prev + 1) % total), INTERVAL_MS)
SetInterval(ts, h, m) ==
    [k \in (DOMAIN ts) \cup {h} |->
        IF k = h THEN [mod |-> m, remaining |-> INTERVAL_MS, owner |-> TRUE]
        ELSE ts[k]]

\* the intervals that survive an unmount call a setter of a dead instance
Disown(ts) == [k \in DOMAIN ts |-> [ts[k] EXCEPT !.owner = FALSE]]

\* return () => clearInterval(timerRef.current), when the effect returned it
RunCleanup(hc, ts, ref) == IF hc THEN ClearInterval(ts, ref) ELSE ts

\* the body of the auto-advance effect for a given total
EffectArms(t) == t >= 2

\* the render reads movies[activeIndex].title unless it returns the skeleton
RenderThrows(len, idx) ==
    Total(len) > 0 /\ (idx = NaN \/ idx < 0 \/ idx >= len)

\* React unmounts the tree when a render throws; committed effects clean up
Crash(len, idx, ts, ref, nh, hc) ==
    /\ mounted' = FALSE
    /\ crashed' = TRUE
    /\ moviesLen' = len
    /\ activeIndex' = idx
    /\ timerRef' = ref
    /\ timers' = Disown(RunCleanup(hc, ts, ref))
    /\ nextHandle' = nh
    /\ hasCleanup' = FALSE

\* a re-render with the same total: no effect runs
Rerender(len, idx, ts, ref, nh, hc) ==
    IF RenderThrows(len, idx)
    THEN Crash(len, idx, ts, ref, nh, hc)
    ELSE /\ moviesLen' = len
         /\ activeIndex' = idx
         /\ timerRef' = ref
         /\ timers' = ts
         /\ nextHandle' = nh
         /\ hasCleanup' = hc
         /\ UNCHANGED <<mounted, crashed>>

\* useEffect(..., [total]): cleanup of the previous run, then the body
RunEffect(len, idx, ts, ref, nh, hc) ==
    /\ moviesLen' = len
    /\ activeIndex' = idx
    /\ IF EffectArms(Total(len))
       THEN /\ timers' = SetInterval(RunCleanup(hc, ts, ref), nh, Total(len))
            /\ timerRef' = nh
            /\ nextHandle' = nh + 1
            /\ hasCleanup' = TRUE
       ELSE /\ timers' = RunCleanup(hc, ts, ref)
            /\ timerRef' = ref
            /\ nextHandle' = nh
            /\ hasCleanup' = FALSE

\* the component mounts with a movies prop of n items
Mount(n) ==
    /\ ~mounted
    /\ ~crashed
    /\ EffectArms(Total(n)) => nextHandle <= MaxHandles
    /\ mounted' = TRUE
    /\ crashed' = FALSE
    /\ RunEffect(n, 0, timers, 0, nextHandle, FALSE)
    /\ UNCHANGED loaderVars

\* the component renders with a movies prop of n items: the render, then the
\* effect if total changed
ReceiveMovies(n) ==
    IF RenderThrows(n, activeIndex)
    THEN Crash(n, activeIndex, timers, timerRef, nextHandle, hasCleanup)
    ELSE IF Total(n) = total
    THEN Rerender(n, activeIndex, timers, timerRef, nextHandle, hasCleanup)
    ELSE /\ EffectArms(Total(n)) => nextHandle <= MaxHandles
         /\ RunEffect(n, activeIndex, timers, timerRef, nextHandle,
                      hasCleanup)
         /\ UNCHANGED <<mounted, crashed>>

\* the parent re-renders the component with a movies prop of n items
SetMovies(n) ==
    /\ mounted
    /\ n # moviesLen
    /\ ReceiveMovies(n)
    /\ UNCHANGED loaderVars

\* goTo(idx): setActiveIndex(idx), clear the referenced interval, arm a new one
GoTo(idx) ==
    /\ nextHandle <= MaxHandles
    /\ Rerender(moviesLen, idx,
                SetInterval(IF timerRef # 0
                            THEN ClearInterval(timers, timerRef)
                            ELSE timers,
                            nextHandle, total),
                nextHandle, nextHandle + 1, hasCleanup)
    /\ UNCHANGED loaderVars

\* (activeIndex + 1) % total
NextIndex(i, t) == JSMod(i + 1, t)

PreviousIndexNoWrap(i, t) == JSMod(i - 1, t)

\* (activeIndex - 1 + total) % total
PreviousIndex(i, t) == JSMod(i - 1 + t, t)

\* the section with the dots, the arrows and onKeyDown is rendered
SectionRendered == mounted /\ total # 0

\* onClick={() => goTo(i)} of dot i
DotClick(i) ==
    /\ SectionRendered
    /\ i \in 0..(total - 1)
    /\ GoTo(i)

\* onClick of the right arrow, rendered when total > 1
ArrowNext ==
    /\ SectionRendered
    /\ total > 1
    /\ GoTo(NextIndex(activeIndex, total))

\* onClick of the left arrow, rendered when total > 1
ArrowPrevious ==
    /\ SectionRendered
    /\ total > 1
    /\ GoTo(PreviousIndex(activeIndex, total))

\* handleKey, e.key === 'ArrowRight'
KeyRight ==
    /\ SectionRendered
    /\ GoTo(NextIndex(activeIndex, total))

\* handleKey, e.key === 'ArrowLeft'
KeyLeft ==
    /\ SectionRendered
    /\ GoTo(PreviousIndex(activeIndex, total))

\* time passes while no pending interval is due
Elapse ==
    /\ DOMAIN timers # {}
    /\ \A h \in DOMAIN timers : timers[h].remaining > 0
    /\ timers' = [h \in DOMAIN timers |->
                    [timers[h] EXCEPT !.remaining =
                        IF @ > ClockStep THEN @ - ClockStep ELSE 0]]
    /\ UNCHANGED <<mounted, crashed, moviesLen, activeIndex, timerRef,
                   nextHandle, hasCleanup>>
    /\ UNCHANGED loaderVars

\* a due interval fires: setActiveIndex(prev => (prev + 1) % total)
Tick(h) ==
    /\ h \in DOMAIN timers
    /\ timers[h].remaining = 0
    /\ LET ts == [timers EXCEPT ![h].remaining = INTERVAL_MS]
       IN IF timers[h].owner
          THEN Rerender(moviesLen, Advance(activeIndex, timers[h].mod), ts,
                        timerRef, nextHandle, hasCleanup)
          ELSE /\ timers' = ts
               /\ UNCHANGED <<mounted, crashed, moviesLen, activeIndex,
                              timerRef, nextHandle, hasCleanup>>
    /\ UNCHANGED loaderVars

\* the component unmounts: the effect's cleanup runs, if it returned one
Unmount ==
    /\ mounted
    /\ mounted' = FALSE
    /\ timers' = Disown(RunCleanup(hasCleanup, timers, timerRef))
    /\ hasCleanup' = FALSE
    /\ UNCHANGED <<crashed, moviesLen, activeIndex, timerRef, nextHandle>>
    /\ UNCHANGED loaderVars

\* goTo called with an arbitrary integer
RawIndex == (0 - 1)..MaxMovies

GoToCall(idx) ==
    /\ mounted
    /\ GoTo(idx)

HeroInit ==
    /\ mounted = FALSE
    /\ crashed = FALSE
    /\ moviesLen = 0
    /\ activeIndex = 0
    /\ timerRef = 0
    /\ timers = <<>>
    /\ nextHandle = 1
    /\ hasCleanup = FALSE

\* ------------------------------------------------------------------------
\* useTMDB
\* ------------------------------------------------------------------------
Null == "null"

Engines == {"chromium", "gecko", "webkit"}

\* res.status / res.statusText of the non-ok responses considered
StatusCodes == {401, 500}

StatusText(status) ==
    IF status = 401 THEN "Unauthorized" ELSE "Internal Server Error"

\* how `await fetch(url)` settles
FetchOutcomes ==
    {[kind |-> "ok", status |-> 200, n |-> 0]}
    \cup {[kind |-> "nonok", status |-> st, n |-> 0] : st \in StatusCodes}
    \cup {[kind |-> "transport", status |-> 0, n |-> 0]}

\* how `await res.json()` settles: a body with a results array of n items,
\* a body without results, the body `null`, a body that is not JSON, or a
\* connection lost while the body is read
JsonOutcomes ==
    {[kind |-> "results", status |-> 200, n |-> k] : k \in 0..MaxResults}
    \cup {[kind |-> k, status |-> 200, n |-> 0] :
            k \in {"noResults", "nullData", "parse", "transportBody"}}

Pending == [kind |-> "pending", status |-> 0, n |-> 0]

\* the outcomes that leave the try block by an exception
Throws(o) ==
    o.kind \in {"nonok", "transport", "parse", "nullData", "transportBody"}

\* err.message of the built-in errors, as the engine words them
EngineMessage(e, kind) ==
    CASE kind = "transport" ->
           (CASE e = "chromium" -> "Failed to fetch"
              [] e = "gecko" ->
                   "NetworkError when attempting to fetch resource."
              [] OTHER -> "Load failed")
      [] kind = "transportBody" ->
           (CASE e = "chromium" -> "network error"
              [] e = "gecko" -> "Error in body stream"
              [] OTHER -> "Load failed")
      [] kind = "parse" ->
           (CASE e = "chromium" -> "Unexpected end of JSON input"
              [] e = "gecko" ->
                   "JSON.parse: unexpected end of data at line 1 column 1 of the JSON data"
              [] OTHER -> "The string did not match the expected pattern.")
      [] OTHER ->
           (CASE e = "chromium" ->
                   "Cannot read properties of null (reading 'results')"
              [] e = "gecko" -> "data is null"
              [] OTHER -> "null is not an object (evaluating 'data.results')")

ErrorMessageGeneric(e, o) == "Failed to load movies"

\* err.message: `TMDB API error: ${res.status} ${res.statusText}` for the
\* error the hook throws, the engine's wording for the others
ErrorMessage(e, o) ==
    IF o.kind = "nonok"
    THEN "TMDB API error: " \o ToString(o.status) \o " " \o StatusText(o.status)
    ELSE EngineMessage(e, o.kind)

Items(n) == [i \in 1..n |-> i]

\* data.results || []
Results(o) == IF o.kind = "results" THEN Items(o.n) ELSE <<>>

OnDataUnguarded(c, o, mv) == Results(o)

\* if (!cancelled) setMovies(data.results || [])
OnData(c, o, mv) == IF ~c THEN Results(o) ELSE mv

OnCatchUnguarded(c, msg, err) == msg

OnCatchSilent(c, msg, err) == err

\* if (!cancelled) setError(err.message)
OnCatch(c, msg, err) == IF ~c THEN msg ELSE err

OnFinallyUnguarded(c, ld) == FALSE

\* if (!cancelled) setLoading(false)
OnFinally(c, ld) == IF ~c THEN FALSE ELSE ld

CaughtOwnErrorOnly(o) == o.kind = "nonok"

\* catch (err): the clause catches whatever the try block throws
Caught(o) == TRUE

CleanupNoop(att) == att

\* return () => { cancelled = true; }
Cleanup(att) == [att EXCEPT !.cancelled = TRUE]

\* the invocation of fetchTrending made by the latest run of the effect
Current == Len(attempts)

\* the cleanup of the latest run of the effect
RunLoaderCleanup(atts) ==
    IF Len(atts) = 0 THEN atts ELSE [atts EXCEPT ![Len(atts)] = Cleanup(@)]

\* let cancelled = false; fetchTrending() up to `await fetch(url)`
NewAttempt(inst) ==
    [pc |-> "fetch", cancelled |-> FALSE, outcome |-> Pending,
     committed |-> FALSE, promise |-> "pending", errorSet |-> Null,
     inst |-> inst]

\* the number of hook instances mounted so far
Instances == Cardinality({attempts[a].inst : a \in DOMAIN attempts})

\* the component using the hook mounts: useState initial values, the effect
LoaderMount ==
    /\ ~hookMounted
    /\ Len(attempts) < MaxAttempts
    /\ hookMounted' = TRUE
    /\ movies' = <<>>
    /\ loading' = TRUE
    /\ error' = Null
    /\ attempts' = Append(attempts, NewAttempt(Instances + 1))
    /\ UNCHANGED <<order, engine>>
    /\ UNCHANGED heroVars

\* React runs the effect again on the mounted instance (StrictMode, refresh):
\* the cleanup of the previous run, then setLoading(true), setError(null)
EffectRerun ==
    /\ hookMounted
    /\ Len(attempts) < MaxAttempts
    /\ attempts' = Append(RunLoaderCleanup(attempts), NewAttempt(Instances))
    /\ loading' = TRUE
    /\ error' = Null
    /\ UNCHANGED <<hookMounted, movies, order, engine>>
    /\ UNCHANGED heroVars

\* the component using the hook unmounts: the cleanup runs
LoaderUnmount ==
    /\ hookMounted
    /\ hookMounted' = FALSE
    /\ attempts' = RunLoaderCleanup(attempts)
    /\ UNCHANGED <<movies, loading, error, order, engine>>
    /\ UNCHANGED heroVars

\* fetchTrending from a settled await to its end: try, catch, finally
Complete(a, o) ==
    LET c == attempts[a].cancelled
        msg == ErrorMessage(engine, o)
        newError == IF Throws(o) /\ Caught(o) THEN OnCatch(c, msg, error)
                    ELSE error
    IN /\ movies' = IF Throws(o) THEN movies ELSE OnData(c, o, movies)
       /\ error' = newError
       /\ loading' = OnFinally(c, loading)
       /\ attempts' = [attempts EXCEPT ![a] =
             [@ EXCEPT !.pc = "done", !.outcome = o, !.committed = ~c,
                       !.promise = IF Throws(o) /\ ~Caught(o)
                                   THEN "rejected" ELSE "fulfilled",
                       !.errorSet = IF Throws(o) /\ Caught(o)
                                    THEN OnCatch(c, msg, Null) ELSE Null]]
       /\ order' = Append(order, a)

\* `await fetch(url)` settles; a non-ok response throws
FetchStep(a, o) ==
    /\ a \in DOMAIN attempts
    /\ attempts[a].pc = "fetch"
    /\ o \in FetchOutcomes
    /\ IF o.kind = "ok"
       THEN /\ attempts' = [attempts EXCEPT ![a].pc = "json"]
            /\ UNCHANGED <<movies, loading, error, order>>
       ELSE Complete(a, o)
    /\ UNCHANGED <<hookMounted, engine>>

FetchSettles(a, o) ==
    /\ FetchStep(a, o)
    /\ UNCHANGED heroVars

\* `await res.json()` settles
JsonStep(a, o) ==
    /\ a \in DOMAIN attempts
    /\ attempts[a].pc = "json"
    /\ o \in JsonOutcomes
    /\ Complete(a, o)
    /\ UNCHANGED <<hookMounted, engine>>

JsonSettles(a, o) ==
    /\ JsonStep(a, o)
    /\ UNCHANGED heroVars

\* the status the snapshot {movies, loading, error} stands for
StatusOf(atts, ld, err) ==
    IF atts = <<>> THEN "idle"
    ELSE IF ld THEN "loading"
    ELSE IF err # Null THEN "failed"
    ELSE "success"

Status == StatusOf(attempts, loading, error)

LoaderInit ==
    /\ hookMounted = FALSE
    /\ movies = <<>>
    /\ loading = TRUE
    /\ error = Null
    /\ attempts = <<>>
    /\ order = <<>>
    /\ engine \in Engines

Init == HeroInit /\ LoaderInit

Next ==
    \/ \E n \in 0..MaxMovies : Mount(n)
    \/ \E n \in 0..MaxMovies : SetMovies(n)
    \/ \E i \in 0..(MAX_SLIDES - 1) : DotClick(i)
    \/ ArrowNext
    \/ ArrowPrevious
    \/ KeyRight
    \/ KeyLeft
    \/ Elapse
    \/ \E h \in 1..(MaxHandles + 1) : Tick(h)
    \/ Unmount

Spec == Init /\ [][Next]_vars

NextApi ==
    \/ Next
    \/ \E idx \in RawIndex : GoToCall(idx)

SpecApi == Init /\ [][NextApi]_vars

NextLoader ==
    \/ LoaderMount
    \/ EffectRerun
    \/ LoaderUnmount
    \/ \E a \in 1..MaxAttempts : \E o \in FetchOutcomes : FetchSettles(a, o)
    \/ \E a \in 1..MaxAttempts : \E o \in JsonOutcomes : JsonSettles(a, o)

SpecLoader == Init /\ [][NextLoader]_vars

\* ------------------------------------------------------------------------
\* The page: HeroBanner rendered with the movies that useTMDB returns
\* ------------------------------------------------------------------------

\* the page mounts: the hook starts its fetch, HeroBanner receives movies = []
PageMount ==
    /\ ~hookMounted
    /\ ~mounted
    /\ ~crashed
    /\ Len(attempts) < MaxAttempts
    /\ hookMounted' = TRUE
    /\ movies' = <<>>
    /\ loading' = TRUE
    /\ error' = Null
    /\ attempts' = Append(attempts, NewAttempt(Instances + 1))
    /\ UNCHANGED <<order, engine>>
    /\ mounted' = TRUE
    /\ crashed' = FALSE
    /\ RunEffect(0, 0, timers, 0, nextHandle, FALSE)

\* the page unmounts: both cleanups run
PageUnmount ==
    /\ hookMounted
    /\ mounted
    /\ hookMounted' = FALSE
    /\ attempts' = RunLoaderCleanup(attempts)
    /\ UNCHANGED <<movies, loading, error, order, engine>>
    /\ mounted' = FALSE
    /\ timers' = Disown(RunCleanup(hasCleanup, timers, timerRef))
    /\ hasCleanup' = FALSE
    /\ UNCHANGED <<crashed, moviesLen, activeIndex, timerRef, nextHandle>>

\* HeroBanner re-renders with the movies the hook now returns
HeroFollows ==
    IF mounted /\ Len(movies') # moviesLen
    THEN ReceiveMovies(Len(movies'))
    ELSE UNCHANGED heroVars

PageFetchSettles(a, o) ==
    /\ FetchStep(a, o)
    /\ HeroFollows

PageJsonSettles(a, o) ==
    /\ JsonStep(a, o)
    /\ HeroFollows

NextPage ==
    \/ PageMount
    \/ PageUnmount
    \/ \E a \in 1..MaxAttempts : \E o \in FetchOutcomes : PageFetchSettles(a, o)
    \/ \E a \in 1..MaxAttempts : \E o \in JsonOutcomes : PageJsonSettles(a, o)
    \/ \E i \in 0..(MAX_SLIDES - 1) : DotClick(i)
    \/ ArrowNext
    \/ ArrowPrevious
    \/ KeyRight
    \/ KeyLeft
    \/ Elapse
    \/ \E h \in 1..(MaxHandles + 1) : Tick(h)

SpecPage == Init /\ [][NextPage]_vars

\* ------------------------------------------------------------------------
\* HeroBanner: claims
\* ------------------------------------------------------------------------

\* (C1) While the component is mounted with two or more slides, exactly one
\* auto-advance interval is pending: never two, never none.
C1_ExactlyOneTimer ==
    (mounted /\ total >= 2) => Cardinality(DOMAIN timers) = 1

\* (C2) Whenever there is at least one slide, 0 <= activeIndex < slideCount,
\* also after the movies prop was replaced by a shorter collection.
C2_IndexInRange ==
    total > 0 => (activeIndex >= 0 /\ activeIndex < total)

\* (C3) goTo with an index below 0 or at or above slideCount leaves
\* activeIndex and the pending intervals unchanged.
C3_OutOfRangeRejected ==
    [][\A idx \in RawIndex :
         (GoToCall(idx) /\ (idx < 0 \/ idx >= total))
            => UNCHANGED <<activeIndex, timerRef, timers>>]_vars

\* (C4) goTo(index) with a valid index stores the index, and afterwards no
\* pending interval is due sooner than one full INTERVAL_MS: no interval armed
\* before the call is still pending.
C4_GoToRestartsClock ==
    [][\A idx \in 0..(MAX_SLIDES - 1) :
         (SectionRendered /\ idx < total /\ GoTo(idx))
            => /\ activeIndex' = idx
               /\ \A h \in DOMAIN timers' :
                     timers'[h].remaining = INTERVAL_MS]_vars

\* (C5) After the component unmounted no interval is pending.
C5_NoTimerAfterUnmount ==
    ~mounted => DOMAIN timers = {}

\* ------------------------------------------------------------------------
\* useTMDB: claims
\* ------------------------------------------------------------------------
loaderState == <<movies, loading, error>>

\* invocation a runs to its end in this step
Completes(a) ==
    /\ a \in DOMAIN attempts
    /\ attempts[a].pc # "done"
    /\ attempts'[a].pc = "done"

\* the snapshot is the one invocation a committed
Reflects(a) ==
    LET o == attempts[a].outcome
    IN /\ ~loading
       /\ IF Throws(o)
          THEN error = ErrorMessage(engine, o)
          ELSE movies = Results(o) /\ error = Null

\* (C6) Once the latest invocation of fetchTrending has committed its result,
\* the snapshot {movies, loading, error} is that result, whatever invocations
\* superseded by it complete afterwards.
C6_LatestAttemptWins ==
    (Current > 0 /\ attempts[Current].committed) => Reflects(Current)

\* a superseded invocation of the same hook instance finished after the
\* latest one had committed
C6_Witness ==
    /\ hookMounted
    /\ Current = 2
    /\ attempts[1].inst = attempts[2].inst
    /\ attempts[2].committed
    /\ order = <<2, 1>>
    /\ attempts[1].outcome.kind = "results"
    /\ attempts[1].outcome.n # attempts[2].outcome.n
    /\ attempts[2].outcome.kind = "results"

\* (C7) While the hook stays unmounted, no step (a fetch or a body read
\* settling, with any outcome) changes movies, loading or error.
C7_NoMutationAfterUnmount ==
    [][(~hookMounted /\ ~hookMounted') => UNCHANGED loaderState]_vars

\* the only invocation was cancelled by the unmount before its fetch settled
\* and then ran to its end through both awaits
C7_Witness ==
    /\ ~hookMounted
    /\ Len(attempts) = 1
    /\ attempts[1].pc = "done"
    /\ attempts[1].outcome.kind = "results"
    /\ attempts[1].outcome.n > 0
    /\ ~attempts[1].committed
    /\ loading

\* (C8) An invocation that runs to its end changes the snapshot if and only
\* if it is the latest one and the hook is mounted at that moment; it then
\* takes loading from true to false in that one step, and the snapshot changes
\* in no other step than such a commit or a new run of the effect.
C8_CommitIffCurrentAndActive ==
    [][/\ \A a \in DOMAIN attempts :
             Completes(a) =>
                /\ (a = Current /\ hookMounted) <=> (loaderState' # loaderState)
                /\ (a = Current /\ hookMounted) =>
                      (loading /\ ~loading' /\ attempts'[a].committed)
       /\ (loaderState' # loaderState) =>
             \/ Len(attempts') > Len(attempts)
             \/ Completes(Current)]_vars

\* one invocation was discarded and a later one committed
C8_Witness ==
    /\ Current = 2
    /\ attempts[1].pc = "done"
    /\ ~attempts[1].committed
    /\ attempts[2].committed
    /\ order = <<2, 1>>

\* (C9) A failure (transport error, non-ok response, unreadable payload) of
\* an invocation that is not cancelled leaves loading false and error set,
\* movies untouched, the status failed, and the promise of fetchTrending
\* fulfilled: nothing is thrown out of the hook.
C9_FailureCommitsFailed ==
    [][\A a \in DOMAIN attempts :
         (Completes(a) /\ ~attempts[a].cancelled
                       /\ Throws(attempts'[a].outcome))
            => /\ ~loading'
               /\ error' # Null
               /\ movies' = movies
               /\ attempts'[a].promise = "fulfilled"
               /\ StatusOf(attempts', loading', error') = "failed"]_vars

\* a payload that is not JSON was committed as a failure
C9_Witness ==
    /\ Current > 0
    /\ attempts[Current].committed
    /\ attempts[Current].outcome.kind = "parse"
    /\ Status = "failed"

\* the failure kind of an outcome
FailureKind(o) ==
    CASE o.kind \in {"transport", "transportBody"} -> "TransportFailure"
      [] o.kind = "nonok" -> "NonSuccessResponse"
      [] o.kind \in {"parse", "nullData"} -> "PayloadParseFailure"
      [] OTHER -> "none"

CommittedFailures ==
    {a \in DOMAIN attempts :
        attempts[a].committed /\ Throws(attempts[a].outcome)}

C11_FailureDistinctFromEmpty ==
    (Current > 0 /\ ~loading)
       => /\ attempts[Current].committed
          /\ Throws(attempts[Current].outcome) <=> (error # Null)
          /\ (Results(attempts[Current].outcome) = <<>>
                 /\ ~Throws(attempts[Current].outcome))
                => <<movies, loading, error>> = <<<<>>, FALSE, Null>>

\* a transport failure was committed while movies is still empty
C11_Witness ==
    /\ Current > 0
    /\ ~loading
    /\ movies = <<>>
    /\ attempts[Current].outcome.kind = "transport"
    /\ error # Null

\* (C12) Every run of the effect starts exactly one invocation of
\* fetchTrending and nothing else starts one; once loading is false the
\* snapshot stays as it is until the effect runs again.
C12_OneAttemptNoRetry ==
    [][/\ Len(attempts') # Len(attempts)
             => /\ Len(attempts') = Len(attempts) + 1
                /\ attempts'[Len(attempts')].pc = "fetch"
                /\ loading'
                /\ (~hookMounted /\ hookMounted')
                      \/ (hookMounted /\ hookMounted'
                             /\ attempts'[Current].cancelled)
       /\ (~loading /\ Len(attempts') = Len(attempts))
             => UNCHANGED loaderState]_vars

\* the latest invocation committed a failure and the superseded one finished
\* after it: no further invocation exists
C12_Witness ==
    /\ hookMounted
    /\ Current = 2
    /\ Len(order) = 2
    /\ order[1] = 2
    /\ attempts[2].committed
    /\ Throws(attempts[2].outcome)
    /\ ~Throws(attempts[1].outcome)
    /\ Status = "failed"

\* ------------------------------------------------------------------------
\* HeroBanner: further claims
\* ------------------------------------------------------------------------

\* (C13) From every index of a rendered carousel, the index that next stores
\* is taken back to the original by previous, and the index that previous
\* stores is taken back to the original by next.
C13_NextPreviousRoundTrip ==
    [][(SectionRendered /\ activeIndex >= 0 /\ activeIndex < total)
          => /\ GoTo(NextIndex(activeIndex, total))
                   => PreviousIndex(activeIndex', total') = activeIndex
             /\ GoTo(PreviousIndex(activeIndex, total))
                   => NextIndex(activeIndex', total') = activeIndex]_vars

\* goTo has stored the last index of a carousel of three or more slides
C13_Witness ==
    /\ mounted
    /\ total >= 3
    /\ activeIndex = total - 1
    /\ timerRef >= 2
    /\ timerRef \in DOMAIN timers
    /\ timers[timerRef].remaining = INTERVAL_MS

\* (C14) While the carousel is mounted with two or more slides, every tick
\* of a pending interval sets activeIndex to (activeIndex + 1) mod slideCount.
C14_TickAdvancesModTotal ==
    [][\A h \in 1..(MaxHandles + 1) :
         (mounted /\ total >= 2 /\ Tick(h))
            => activeIndex' = JSMod(activeIndex + 1, total)]_vars

\* (C15) While the component is mounted, an interval is pending if and only
\* if there are two or more slides.
C15_TimerIffCycling ==
    mounted => ((DOMAIN timers # {}) <=> (total >= 2))

\* (C16) Every replacement of the movies prop resets activeIndex to 0.
C16_NewCollectionResetsIndex ==
    [][\A n \in 0..MaxMovies : SetMovies(n) => activeIndex' = 0]_vars

\* (C17) total is the size of the collection capped at 5, and activeIndex
\* never reaches 5, whatever ticks and UI navigation happen.
C17_CappedAtFive ==
    /\ total = (IF moviesLen <= 5 THEN moviesLen ELSE 5)
    /\ activeIndex >= 0
    /\ activeIndex < 5

\* a collection of more than five items shows its fifth slide
C17_Witness ==
    /\ mounted
    /\ moviesLen > 5
    /\ activeIndex = 4

\* (C18) The unmount leaves no interval pending and activeIndex as it was,
\* and running the cleanup once more changes nothing.
C18_DeactivateIdempotent ==
    [][Unmount
          => /\ DOMAIN timers' = {}
             /\ activeIndex' = activeIndex
             /\ RunCleanup(TRUE, timers', timerRef') = timers']_vars

\* (C19) While the component is mounted, every pending interval advances
\* modulo the current total.
C19_TimersUseCurrentTotal ==
    mounted => \A h \in DOMAIN timers : timers[h].mod = total

\* ------------------------------------------------------------------------
\* The page: claims
\* ------------------------------------------------------------------------

\* (C20) With HeroBanner fed by the hook's movies, the carousel has no slide
\* and no pending interval while the status is loading or failed, and an
\* interval is pending only after a committed success with two or more items.
C20_TimerOnlyAfterSuccess ==
    /\ Status \in {"loading", "failed"}
          => (total = 0 /\ DOMAIN timers = {})
    /\ DOMAIN timers # {}
          => /\ Current > 0
             /\ \E a \in DOMAIN attempts :
                   /\ attempts[a].committed
                   /\ ~Throws(attempts[a].outcome)
                   /\ Len(Results(attempts[a].outcome)) >= 2

====
